---- MODULE Spec2Model ----
(***************************************************************************)
(* PioneerOS validation suite (src/Validator.py).                          *)
(*                                                                         *)
(* PioneerValidator.run_all_tests calls 17 checks in a fixed order and     *)
(* then generate_report.  Every check reads the build tree and calls log   *)
(* at most once; log stores the result under the test name and bumps one   *)
(* of the three counters of results["summary"].                            *)
(*                                                                         *)
(* The build tree is an input.  The two facts that more than one check     *)
(* reads (sdcard.img, usr/lib) are fixed in fs when the run starts; every  *)
(* other path is read by one check only and is drawn when that check       *)
(* reads it.  Formatted values inside messages ({len(found)}, sizes) and   *)
(* the details argument of log are left out of the stored result.          *)
(* Path.exists() answers True or False; the reads that follow it           *)
(* (read_text, iterdir, open for writing) can raise OSError.               *)
(***************************************************************************)
EXTENDS Integers, Sequences, FiniteSets, TLC

VARIABLES
    fs,        \* the shared facts of the build tree: sdcard.img, usr/lib
    pc,        \* index into RunSequence of the next call of run_all_tests
    run,       \* "running", "returned" or "aborted" (an exception escaped)
    calls,     \* the functions run_all_tests has called so far, in order
    tests,     \* results["tests"]: test name -> [status, message]
    summary,   \* results["summary"]
    verdict,   \* the STATUS line generate_report printed, or "none"
    verdicts,  \* how many times a STATUS line was printed
    report,    \* validation_report.json: "none", "saved" or "write_error"
    oserror,   \* the function whose file access failed, or "none"
    scenarioC, \* history: the tree read so far is Scenario C's tree
    arg,       \* the input of a pure function under FnSpec
    ret        \* the results of the pure function applied to arg

vars == <<fs, pc, run, calls, tests, summary, verdict, verdicts, report,
          oserror, scenarioC, arg, ret>>

\* Bounds of the models.
MaxCount == 17
MaxHalfGiB == 9

\* File sizes are kept as half * 2^29 + rem bytes, 0 <= rem < 2^29, so that
\* 4 GiB and more fit TLC's 32-bit integers.  st_size / 1024**3 is exact
\* in double precision for every size below 2^53 bytes.
HalfGiB == 536870912

CheckOrder ==
    << "test_image_exists", "test_kernel_exists", "test_dtb_exists",
       "test_rootfs_exists", "test_boot_partition",
       "test_python_in_rootfs", "test_opencv_libs", "test_ssh_server",
       "test_i2c_tools",
       "test_network_config", "test_wifi_config", "test_rootfs_overlay",
       "test_kernel_modules", "test_utilities", "test_firmware_files",
       "test_image_size", "test_toolchain" >>

RunSequence == CheckOrder \o << "generate_report" >>

----------------------------------------------------------------------------
\* Pure parts.

\* Mutants of Verdict: a strict passed threshold, a flipped comparison of
\* failed, a higher passed threshold.
Verdict_passed_gt_12(passed, failed, warnings) ==
    IF failed = 0 /\ passed > 12 THEN "READY"
    ELSE IF failed <= 2 /\ warnings <= 3 THEN "CONDITIONAL"
    ELSE "NOT_READY"

Verdict_failed_ge_2(passed, failed, warnings) ==
    IF failed = 0 /\ passed >= 12 THEN "READY"
    ELSE IF failed >= 2 /\ warnings <= 3 THEN "CONDITIONAL"
    ELSE "NOT_READY"

Verdict_passed_ge_15(passed, failed, warnings) ==
    IF failed = 0 /\ passed >= 15 THEN "READY"
    ELSE IF failed <= 2 /\ warnings <= 3 THEN "CONDITIONAL"
    ELSE "NOT_READY"

Verdict(passed, failed, warnings) ==
    IF failed = 0 /\ passed >= 12 THEN "READY"
    ELSE IF failed <= 2 /\ warnings <= 3 THEN "CONDITIONAL"
    ELSE "NOT_READY"

\* 1.5 <= size_gb, with size_gb = st_size / 1024**3
AtLeastOneAndHalf(size) == size.half >= 3

\* Mutant of AtMostFour: size_gb < 4.
AtMostFour_exclusive(size) == size.half < 8

\* size_gb <= 4
AtMostFour(size) == size.half < 8 \/ (size.half = 8 /\ size.rem = 0)

\* size_gb < 1.5
BelowOneAndHalf(size) == size.half < 3

ImageSizeResult(size) ==
    IF AtLeastOneAndHalf(size) /\ AtMostFour(size)
    THEN [status |-> "PASS", message |-> "Size OK"]
    ELSE IF BelowOneAndHalf(size)
    THEN [status |-> "WARN", message |-> "Smaller than expected"]
    ELSE [status |-> "WARN", message |-> "Larger than expected"]

FileSizes ==
    [half : 0..MaxHalfGiB, rem : {0, 1, HalfGiB - 1}]

Count(bools) == Cardinality({i \in DOMAIN bools : bools[i]})

----------------------------------------------------------------------------
\* log and the call discipline of run_all_tests.

\* Mutant of log: a WARN result is stored and not tallied.
log_warn_untallied(status, test_name, message) ==
    /\ tests' = [n \in DOMAIN tests \cup {test_name} |->
                    IF n = test_name
                    THEN [status |-> status, message |-> message]
                    ELSE tests[n]]
    /\ summary' = IF status = "PASS"
                  THEN [summary EXCEPT !.passed = @ + 1]
                  ELSE IF status = "FAIL"
                  THEN [summary EXCEPT !.failed = @ + 1]
                  ELSE summary

log(status, test_name, message) ==
    /\ tests' = [n \in DOMAIN tests \cup {test_name} |->
                    IF n = test_name
                    THEN [status |-> status, message |-> message]
                    ELSE tests[n]]
    /\ summary' = IF status = "PASS"
                  THEN [summary EXCEPT !.passed = @ + 1]
                  ELSE IF status = "FAIL"
                  THEN [summary EXCEPT !.failed = @ + 1]
                  ELSE [summary EXCEPT !.warnings = @ + 1]

call(fn) ==
    /\ run = "running"
    /\ pc <= Len(RunSequence)
    /\ RunSequence[pc] = fn
    /\ calls' = Append(calls, fn)

return ==
    /\ pc' = pc + 1
    /\ run' = IF pc = Len(RunSequence) THEN "returned" ELSE "running"
    /\ oserror' = oserror

\* An exception leaves fn, run_all_tests and the __main__ block.
raise(fn) ==
    /\ pc' = pc
    /\ run' = "aborted"
    /\ oserror' = fn

noReport == UNCHANGED <<fs, verdict, verdicts, report, arg, ret>>

\* Scenario C's tree has every checked artifact except wpa_supplicant.conf
\* and i2cdetect.
asScenarioC(intact) == scenarioC' = (scenarioC /\ intact)

----------------------------------------------------------------------------
\* The state after PioneerValidator(): nothing logged, nothing called.
NoArg == [fn |-> "none"]

Init ==
    /\ fs \in [sdcard_img : BOOLEAN, usr_lib : BOOLEAN]
    /\ pc = 1
    /\ run = "running"
    /\ calls = << >>
    /\ tests = << >>
    /\ summary = [passed |-> 0, failed |-> 0, warnings |-> 0]
    /\ verdict = "none"
    /\ verdicts = 0
    /\ report = "none"
    /\ oserror = "none"
    /\ scenarioC = (fs.sdcard_img /\ fs.usr_lib)
    /\ arg = NoArg
    /\ ret = << >>

test_image_exists ==
    /\ call("test_image_exists")
    /\ IF fs.sdcard_img
       THEN log("PASS", "Image File", "Found at")
       ELSE log("FAIL", "Image File", "sdcard.img not found")
    /\ asScenarioC(fs.sdcard_img)
    /\ return
    /\ noReport

test_kernel_exists ==
    /\ call("test_kernel_exists")
    /\ \E exists \in BOOLEAN :
        /\ IF exists
           THEN log("PASS", "Kernel Image", "Linux kernel found")
           ELSE log("FAIL", "Kernel Image", "Kernel not found")
        /\ asScenarioC(exists)
    /\ return
    /\ noReport

test_dtb_exists ==
    /\ call("test_dtb_exists")
    /\ \E exists \in BOOLEAN :
        /\ IF exists
           THEN log("PASS", "Device Tree", "BCM2711 DTB found")
           ELSE log("FAIL", "Device Tree", "DTB for RPi4 not found")
        /\ asScenarioC(exists)
    /\ return
    /\ noReport

test_rootfs_exists ==
    /\ call("test_rootfs_exists")
    /\ \E exists \in BOOLEAN :
        /\ IF exists
           THEN log("PASS", "Root Filesystem", "ext4 rootfs found")
           ELSE log("FAIL", "Root Filesystem", "rootfs.ext4 not found")
        /\ asScenarioC(exists)
    /\ return
    /\ noReport

test_boot_partition ==
    /\ call("test_boot_partition")
    /\ \E exists \in BOOLEAN :
        /\ IF exists
           THEN log("PASS", "Boot Partition", "boot.vfat created")
           ELSE log("FAIL", "Boot Partition", "boot.vfat not found")
        /\ asScenarioC(exists)
    /\ return
    /\ noReport

\* usr/lib/python3.11 can exist only under an existing usr/lib.
test_python_in_rootfs ==
    /\ call("test_python_in_rootfs")
    /\ \E python3 \in BOOLEAN,
          python3_11 \in IF fs.usr_lib THEN BOOLEAN ELSE {FALSE} :
        /\ IF Count(<<python3, python3_11>>) >= 1
           THEN log("PASS", "Python3", "Found /2 components")
           ELSE log("FAIL", "Python3", "Python3 not found in rootfs")
        /\ asScenarioC(python3 /\ python3_11)
    /\ return
    /\ noReport

test_opencv_libs ==
    /\ call("test_opencv_libs")
    /\ IF fs.usr_lib
       THEN \E core \in BOOLEAN, imgproc \in BOOLEAN :
               /\ IF Count(<<core, imgproc>>) >= 1
                  THEN log("PASS", "OpenCV4", "Found core libraries")
                  ELSE log("WARN", "OpenCV4",
                           "OpenCV libraries not confirmed")
               /\ asScenarioC(core /\ imgproc)
       ELSE /\ log("WARN", "OpenCV4",
                   "Cannot verify (lib dir not accessible)")
            /\ asScenarioC(FALSE)
    /\ return
    /\ noReport

test_ssh_server ==
    /\ call("test_ssh_server")
    /\ \E dropbear \in BOOLEAN, S50dropbear \in BOOLEAN :
        /\ IF Count(<<dropbear, S50dropbear>>) >= 1
           THEN log("PASS", "SSH Server", "Dropbear found")
           ELSE log("FAIL", "SSH Server", "Dropbear not found")
        /\ asScenarioC(dropbear /\ S50dropbear)
    /\ return
    /\ noReport

\* Mutant of test_i2c_tools: a missing i2cdetect is a FAIL.
test_i2c_tools_fail ==
    /\ call("test_i2c_tools")
    /\ \E exists \in BOOLEAN :
        /\ IF exists
           THEN log("PASS", "I2C Tools", "i2cdetect found")
           ELSE log("FAIL", "I2C Tools", "i2c-tools not confirmed")
        /\ asScenarioC(~exists)
    /\ return
    /\ noReport

test_i2c_tools ==
    /\ call("test_i2c_tools")
    /\ \E exists \in BOOLEAN :
        /\ IF exists
           THEN log("PASS", "I2C Tools", "i2cdetect found")
           ELSE log("WARN", "I2C Tools", "i2c-tools not confirmed")
        /\ asScenarioC(~exists)
    /\ return
    /\ noReport

\* read_text raises when the file exists and cannot be read (permission
\* denied, a directory, undecodable bytes); nothing catches it.
test_network_config ==
    /\ call("test_network_config")
    /\ \E exists \in BOOLEAN, readable \in BOOLEAN,
          has_ip \in BOOLEAN, has_eth0 \in BOOLEAN :
        /\ IF exists /\ ~readable
           THEN /\ raise("test_network_config")
                /\ UNCHANGED <<tests, summary>>
           ELSE /\ IF exists
                   THEN IF has_ip /\ has_eth0
                        THEN log("PASS", "Network Config",
                                 "Static IP configured (192.168.1.10)")
                        ELSE log("WARN", "Network Config",
                                 "Config exists but may be incomplete")
                   ELSE log("FAIL", "Network Config",
                            "Network interfaces file missing")
                /\ return
        /\ asScenarioC(exists /\ readable /\ has_ip /\ has_eth0)
    /\ noReport

test_wifi_config ==
    /\ call("test_wifi_config")
    /\ \E exists \in BOOLEAN, readable \in BOOLEAN, has_ssid \in BOOLEAN :
        /\ IF exists /\ ~readable
           THEN /\ raise("test_wifi_config")
                /\ UNCHANGED <<tests, summary>>
           ELSE /\ IF exists
                   THEN IF has_ssid
                        THEN log("WARN", "WiFi Config",
                                 "Default credentials not changed")
                        ELSE log("PASS", "WiFi Config",
                                 "WiFi credentials configured")
                   ELSE log("WARN", "WiFi Config",
                            "wpa_supplicant.conf not found")
                /\ return
        /\ asScenarioC(~exists)
    /\ noReport

test_rootfs_overlay ==
    /\ call("test_rootfs_overlay")
    /\ \E exists \in BOOLEAN :
        /\ IF exists
           THEN log("PASS", "Custom Overlay",
                    "Robotics startup script present")
           ELSE log("WARN", "Custom Overlay", "Startup script not found")
        /\ asScenarioC(exists)
    /\ return
    /\ noReport

\* iterdir raises when lib/modules exists and cannot be listed (permission
\* denied, not a directory); nothing catches it.
test_kernel_modules ==
    /\ call("test_kernel_modules")
    /\ \E exists \in BOOLEAN, listable \in BOOLEAN, entries \in 0..1 :
        /\ IF exists /\ ~listable
           THEN /\ raise("test_kernel_modules")
                /\ UNCHANGED <<tests, summary>>
           ELSE /\ IF exists
                   THEN IF entries > 0
                        THEN log("PASS", "Kernel Modules",
                                 "Found modules directory")
                        ELSE log("WARN", "Kernel Modules",
                                 "Modules directory empty")
                   ELSE log("WARN", "Kernel Modules",
                            "Cannot verify modules")
                /\ return
        /\ asScenarioC(exists /\ listable /\ entries > 0)
    /\ noReport

test_utilities ==
    /\ call("test_utilities")
    /\ \E htop \in BOOLEAN, nano \in BOOLEAN, file \in BOOLEAN :
        /\ IF Count(<<htop, nano, file>>) >= 2
           THEN log("PASS", "System Utilities", "Found /3 tools")
           ELSE log("WARN", "System Utilities", "Only /3 tools found")
        /\ asScenarioC(htop /\ nano /\ file)
    /\ return
    /\ noReport

test_firmware_files ==
    /\ call("test_firmware_files")
    /\ \E dir \in BOOLEAN :
       \E start4 \in IF dir THEN BOOLEAN ELSE {FALSE},
          fixup4 \in IF dir THEN BOOLEAN ELSE {FALSE} :
        /\ IF dir
           THEN IF Count(<<start4, fixup4>>) = 2
                THEN log("PASS", "RPi Firmware",
                         "All firmware files present")
                ELSE log("WARN", "RPi Firmware", "Found /2 files")
           ELSE log("FAIL", "RPi Firmware", "Firmware directory not found")
        /\ asScenarioC(dir /\ start4 /\ fixup4)
    /\ return
    /\ noReport

\* Mutant of test_image_size: a missing sdcard.img is logged as a FAIL.
test_image_size_logs_missing ==
    /\ call("test_image_size")
    /\ IF fs.sdcard_img
       THEN \E st_size \in FileSizes :
               /\ log(ImageSizeResult(st_size).status, "Image Size",
                      ImageSizeResult(st_size).message)
               /\ asScenarioC(ImageSizeResult(st_size).status = "PASS")
       ELSE /\ log("FAIL", "Image Size", "sdcard.img not found")
            /\ UNCHANGED scenarioC
    /\ return
    /\ noReport

\* No else branch: nothing is logged when sdcard.img does not exist.
test_image_size ==
    /\ call("test_image_size")
    /\ IF fs.sdcard_img
       THEN \E st_size \in FileSizes :
               /\ log(ImageSizeResult(st_size).status, "Image Size",
                      ImageSizeResult(st_size).message)
               /\ asScenarioC(ImageSizeResult(st_size).status = "PASS")
       ELSE UNCHANGED <<tests, summary, scenarioC>>
    /\ return
    /\ noReport

test_toolchain ==
    /\ call("test_toolchain")
    /\ \E exists \in BOOLEAN :
        /\ IF exists
           THEN log("PASS", "Toolchain", "Cross-compiler present")
           ELSE log("WARN", "Toolchain", "Cross-compiler not found")
        /\ asScenarioC(exists)
    /\ return
    /\ noReport

\* The STATUS line is printed before open(report_path, 'w'); a failing open
\* raises out of generate_report with nothing caught and nothing printed
\* after it.
generate_report ==
    /\ call("generate_report")
    /\ verdict' = Verdict(summary.passed, summary.failed, summary.warnings)
    /\ verdicts' = verdicts + 1
    /\ \E writable \in BOOLEAN :
        IF writable
        THEN /\ report' = "saved"
             /\ return
        ELSE /\ report' = "write_error"
             /\ raise("generate_report")
    /\ UNCHANGED <<fs, tests, summary, scenarioC, arg, ret>>

Next ==
    \/ test_image_exists
    \/ test_kernel_exists
    \/ test_dtb_exists
    \/ test_rootfs_exists
    \/ test_boot_partition
    \/ test_python_in_rootfs
    \/ test_opencv_libs
    \/ test_ssh_server
    \/ test_i2c_tools
    \/ test_network_config
    \/ test_wifi_config
    \/ test_rootfs_overlay
    \/ test_kernel_modules
    \/ test_utilities
    \/ test_firmware_files
    \/ test_image_size
    \/ test_toolchain
    \/ generate_report

Spec == Init /\ [][Next]_vars

----------------------------------------------------------------------------
\* The pure functions on their own: the readiness verdict on any three
\* counts (and on a second failed count, to compare two verdicts), and the
\* size classification of test_image_size on any file size.

NoSize == [half |-> 0, rem |-> 0]

FnArgs ==
    [fn : {"Verdict"}, passed : 0..MaxCount, failed : 0..MaxCount,
     failed2 : 0..MaxCount, warnings : 0..MaxCount, size : {NoSize}]
    \cup
    [fn : {"ImageSizeResult"}, passed : {0}, failed : {0}, failed2 : {0},
     warnings : {0}, size : FileSizes]

FnInit ==
    /\ fs = [sdcard_img |-> TRUE, usr_lib |-> TRUE]
    /\ pc = 1
    /\ run = "running"
    /\ calls = << >>
    /\ tests = << >>
    /\ summary = [passed |-> 0, failed |-> 0, warnings |-> 0]
    /\ verdict = "none"
    /\ verdicts = 0
    /\ report = "none"
    /\ oserror = "none"
    /\ scenarioC = TRUE
    /\ arg \in FnArgs
    /\ ret = << >>

apply_Verdict ==
    /\ arg.fn = "Verdict"
    /\ ret = << >>
    /\ ret' = << Verdict(arg.passed, arg.failed, arg.warnings),
                 Verdict(arg.passed, arg.failed2, arg.warnings) >>
    /\ UNCHANGED <<fs, pc, run, calls, tests, summary, verdict, verdicts,
                   report, oserror, scenarioC, arg>>

apply_ImageSizeResult ==
    /\ arg.fn = "ImageSizeResult"
    /\ ret = << >>
    /\ ret' = << ImageSizeResult(arg.size) >>
    /\ UNCHANGED <<fs, pc, run, calls, tests, summary, verdict, verdicts,
                   report, oserror, scenarioC, arg>>

FnNext ==
    \/ apply_Verdict
    \/ apply_ImageSizeResult

FnSpec == FnInit /\ [][FnNext]_vars

----------------------------------------------------------------------------
\* Properties.

Logged == Cardinality(DOMAIN tests)

Tally == summary.passed + summary.failed + summary.warnings

ChecksDone == pc > Len(CheckOrder)

StatusOf(test_name) ==
    IF test_name \in DOMAIN tests THEN tests[test_name].status ELSE "none"

IsCheck(fn) == \E i \in 1..Len(CheckOrder) : CheckOrder[i] = fn

\* C1: once all 17 checks have run, passed + failed + warnings is 17, and
\* 16 in a run in which sdcard.img is absent (test_image_size logs nothing).
C1_TallyAfterAllChecks ==
    ChecksDone => Tally = IF fs.sdcard_img THEN 17 ELSE 16

C1_Witness ==
    /\ run = "returned"
    /\ ~fs.sdcard_img
    /\ Tally = 16
    /\ "Image Size" \notin DOMAIN tests

\* C2: in every state of a run the three counters add up to the number of
\* entries of results["tests"].
C2_TallyIsEntries == Tally = Logged

C2_Witness ==
    /\ Logged = 17
    /\ summary.passed > 0
    /\ summary.failed > 0
    /\ summary.warnings > 0

\* C3: the verdict is READY iff F = 0 and P >= 12, CONDITIONAL iff not READY
\* and F <= 2 and W <= 3, and NOT_READY in every other case.
C3_VerdictTable ==
    (arg.fn = "Verdict" /\ ret # << >>) =>
        LET P == arg.passed
            F == arg.failed
            W == arg.warnings
            ready == F = 0 /\ P >= 12
            conditional == ~ready /\ F <= 2 /\ W <= 3
        IN  /\ ret[1] \in {"READY", "CONDITIONAL", "NOT_READY"}
            /\ ret[1] = "READY" <=> ready
            /\ ret[1] = "CONDITIONAL" <=> conditional
            /\ ret[1] = "NOT_READY" <=> (~ready /\ ~conditional)

C3_Witness ==
    /\ arg.fn = "Verdict"
    /\ ret # << >>
    /\ arg.failed = 0
    /\ arg.passed < 12
    /\ arg.warnings > 3
    /\ ret[1] = "NOT_READY"

Severity(v) ==
    IF v = "READY" THEN 0 ELSE IF v = "CONDITIONAL" THEN 1 ELSE 2

\* C4: with passed and warnings fixed, a larger failed count never gives a
\* less severe verdict (READY < CONDITIONAL < NOT_READY).
C4_VerdictMonotone ==
    (arg.fn = "Verdict" /\ ret # << >> /\ arg.failed <= arg.failed2) =>
        Severity(ret[1]) <= Severity(ret[2])

C4_Witness ==
    /\ arg.fn = "Verdict"
    /\ ret # << >>
    /\ arg.failed < arg.failed2
    /\ ret[1] = "CONDITIONAL"
    /\ ret[2] = "NOT_READY"

\* The test name under which a check that reads a file's content or a
\* directory's entries logs its result.
TestName(fn) ==
    CASE fn = "test_network_config" -> "Network Config"
      [] fn = "test_wifi_config" -> "WiFi Config"
      [] fn = "test_kernel_modules" -> "Kernel Modules"
      [] OTHER -> "none"

\* C5: a check whose file access fails still records a WARN or a FAIL and
\* the run goes on; no check aborts the run.
C5_NoErrorEscapesACheck ==
    IsCheck(oserror) =>
        /\ run # "aborted"
        /\ StatusOf(TestName(oserror)) \in {"WARN", "FAIL"}
        /\ pc > CHOOSE i \in 1..Len(CheckOrder) : CheckOrder[i] = oserror

\* C6: when validation_report.json cannot be written, generate_report and
\* run_all_tests still return normally, with the verdict printed.
C6_WriteFailureIsSurvived ==
    report = "write_error" => (run = "returned" /\ verdict # "none")

\* C7: every run calls the 17 checks once each in the fixed order and
\* computes the verdict once, after test_toolchain.
C7_AllChecksOnceThenVerdict ==
    /\ \A i \in 1..Len(calls) : calls[i] = RunSequence[i]
    /\ verdicts > 0 => ChecksDone
    /\ run # "running" => (calls = RunSequence /\ verdicts = 1)

OneAndHalfGiB == [half |-> 3, rem |-> 0]

FourGiB == [half |-> 8, rem |-> 0]

\* a is fewer bytes than b (rem < HalfGiB in both).
SizeLess(a, b) ==
    a.half < b.half \/ (a.half = b.half /\ a.rem < b.rem)

\* C8: an image of 1.5 GiB to 4.0 GiB, both bounds included, is a PASS, a
\* smaller one a WARN "Smaller than expected", a larger one a WARN "Larger
\* than expected"; no size is a FAIL.
C8_ImageSizeBounds ==
    (arg.fn = "ImageSizeResult" /\ ret # << >>) =>
        /\ ret[1].status # "FAIL"
        /\ arg.size = OneAndHalfGiB => ret[1].status = "PASS"
        /\ arg.size = FourGiB => ret[1].status = "PASS"
        /\ (~SizeLess(arg.size, OneAndHalfGiB) /\ ~SizeLess(FourGiB, arg.size))
              => ret[1].status = "PASS"
        /\ SizeLess(arg.size, OneAndHalfGiB) =>
              ret[1] = [status |-> "WARN", message |-> "Smaller than expected"]
        /\ SizeLess(FourGiB, arg.size) =>
              ret[1] = [status |-> "WARN", message |-> "Larger than expected"]

C8_Witness ==
    /\ arg.fn = "ImageSizeResult"
    /\ ret # << >>
    /\ arg.size = FourGiB
    /\ ret[1].status = "PASS"

\* C9: on a tree that lacks only wpa_supplicant.conf and i2cdetect, WiFi
\* Config and I2C Tools are WARN, nothing failed, and the verdict is READY.
C9_ScenarioC ==
    (scenarioC /\ verdict # "none") =>
        /\ StatusOf("WiFi Config") = "WARN"
        /\ StatusOf("I2C Tools") = "WARN"
        /\ summary.failed = 0
        /\ verdict = "READY"

C9_Witness ==
    /\ scenarioC
    /\ run = "returned"
    /\ verdict = "READY"
    /\ summary = [passed |-> 15, failed |-> 0, warnings |-> 2]

\* C10: in a run that completed its 17 checks, a CONDITIONAL verdict comes
\* with one or two failed checks.
C10_ConditionalHasFailures ==
    verdict = "CONDITIONAL" => (1 <= summary.failed /\ summary.failed <= 2)

C10_Witness ==
    /\ verdict = "CONDITIONAL"
    /\ summary.failed = 1
    /\ run = "returned"

====
